---------------------------- MODULE Spec2Model ----------------------------
(***************************************************************************)
(* ibkr-mcp: the bridge between the IBKR gateway's callback stream and the *)
(* request/response operations of the MCP server.                          *)
(*                                                                         *)
(*   src/ibkr_mcp/ibkr/client.py   IBKRWrapper (callbacks, position signal)*)
(*                                 IBKRClient  (connect, pump loop `run`,  *)
(*                                 get_positions, request_market_data)     *)
(*   src/ibkr_mcp/ibkr/types.py    Position (__hash__ / __eq__)            *)
(*   src/ibkr_mcp/server.py        ensure_ibkr_connection                  *)
(*                                                                         *)
(* Threads of the program: the asyncio event-loop thread (the consumer     *)
(* tasks and every connect call), one pump thread per connect call         *)
(* (threading.Thread(target=self.run)), and the library's reader thread    *)
(* that fills msg_queue from the socket.  A step of the model is one       *)
(* stretch of one thread between two points where another thread's effect  *)
(* can be observed.                                                        *)
(***************************************************************************)
EXTENDS Integers, Sequences, FiniteSets, TLC

(***************************************************************************)
(* Bounds of the model.                                                    *)
(***************************************************************************)
\* capacity of msg_queue in the model (queue.Queue() is unbounded)
MaxQueue == 2
\* number of connect calls, hence of pump threads ever started
MaxConnects == 2
\* reqPositions requests the answering gateway holds unanswered at a time
MaxAsked == 2

(***************************************************************************)
(* Program constants.                                                      *)
(***************************************************************************)
\* ibapi.common.MAX_MSG_LEN = 0xFFFFFF
MAX_MSG_LEN == 16777215
\* for n in range(10)
PollIterations == 10

Threads == 1..MaxConnects
\* asyncio tasks that call get_positions on the one event loop
Tasks == {"a", "b"}

\* value of a dict lookup that finds nothing / of an absent result: the empty
\* tuple, which is no record and no contract id
None == <<>>

(***************************************************************************)
(* Inputs.  A contract is used by the code only through contract.conId.    *)
(* Prices and costs are in tenths (55.2 is 552).                           *)
(***************************************************************************)
Accounts == {"U123", "U456"}
ConIds == {7, 8}

\* TickTypeEnum.idx2name, on the tick types used here
idx2name == [i \in 0..3 |-> CASE i = 0 -> "BID_SIZE" [] i = 1 -> "BID"
                                 [] i = 2 -> "ASK" [] OTHER -> "ASK_SIZE"]

\* one inbound message: its length and what the decoder makes of it; a frame
\* of exactly MAX_MSG_LEN characters is the longest one run() accepts
Msg(kind, a, b, c, d, len) ==
  [kind |-> kind, a |-> a, b |-> b, c |-> c, d |-> d, len |-> len]

PositionMsg(account, conId, qty, cost) ==
  Msg("position", account, conId, qty, cost, MAX_MSG_LEN)
PositionEndMsg == Msg("positionEnd", "", 0, 0, 0, MAX_MSG_LEN)
TickPriceMsg(reqId, tickType, price) ==
  Msg("tickPrice", "", reqId, tickType, price, MAX_MSG_LEN)
TickSizeMsg(reqId, tickType, size) ==
  Msg("tickSize", "", reqId, tickType, size, MAX_MSG_LEN)
\* a positionEnd frame whose text is longer than MAX_MSG_LEN
OversizeMsg == Msg("positionEnd", "", 0, 0, 0, MAX_MSG_LEN + 1)

VARIABLES
  connState,        \* EClient.connState: "Disconnected" | "Connected"
  sockOpen,         \* conn.isConnected(): the socket is open
  msg_queue,        \* EClient.msg_queue
  nThreads,         \* pump threads started so far
  pumpPc,           \* per pump thread: where it is in run()
  cleanups,         \* per pump thread: calls of self.disconnect() it made
  errors,           \* error codes handed to wrapper.error by run()
  positions,        \* IBKRWrapper.positions
  position_event,   \* IBKRWrapper.position_event._value
  market_data_request_ids,  \* IBKRWrapper.market_data_request_ids (reqId -> conId)
  market_data,      \* IBKRWrapper.market_data (conId -> MarketData)
  taskPc,           \* per task: where it is in wait_for_positions
  taskN,            \* per task: the poll iteration n it is in
  sigHist,          \* history, per task: the signal as the current call saw it
  stale,            \* history, per task: keys delivered only before its request
  mdCall,           \* the request_market_data call in progress, if any
  md_result,        \* <<what the last get_market_data call returned>>
  subscribed,       \* gateway: request ids of the subscriptions it was sent
  asked,            \* gateway: reqPositions requests not yet answered
  begun,            \* history: contract ids a market-data request was begun for
  delivered         \* history: keys the position callback was called with

vars == <<connState, sockOpen, msg_queue, nThreads, pumpPc, cleanups, errors,
          positions, position_event, market_data_request_ids, market_data,
          taskPc, taskN, sigHist, stale, mdCall, md_result, subscribed,
          asked, begun, delivered>>

connVars == <<connState, sockOpen>>
pumpVars == <<nThreads, pumpPc, cleanups, errors>>
mdVars == <<market_data_request_ids, market_data>>
taskVars == <<taskPc, taskN, sigHist>>
\* the market-data calls of the event loop and the gateway's subscriptions
mdCallVars == <<mdCall, md_result, subscribed, begun>>

(***************************************************************************)
(* Dictionaries.                                                           *)
(***************************************************************************)
EmptyMap == [x \in {} |-> 0]
Put(f, k, v) == [x \in (DOMAIN f) \cup {k} |-> IF x = k THEN v ELSE f[x]]
\* dict.get(k): None when k is no key
Get(f, k) == IF k \in DOMAIN f THEN f[k] ELSE None

\* MarketData(): both maps empty
MarketData == [price |-> EmptyMap, size |-> EmptyMap]

(***************************************************************************)
(* types.py: Position, hashed and compared by (account, contract.conId).   *)
(***************************************************************************)
Position(account, conId, qty, cost) ==
  [account |-> account, conId |-> conId, position |-> qty, average_cost |-> cost]

\* Position.__hash__: hash((self.account, self.contract.conId)); the tuple
\* stands for its hash, which is injective on these accounts and ids
PositionHash(p) == <<p.account, p.conId>>

\* Position.__eq__: hash(self) == hash(other)
PositionEq(p, q) == PositionHash(p) = PositionHash(q)

\* set.add(p): a set that holds an element equal to p is left as it is
SetAdd(S, p) == IF \E q \in S : PositionEq(p, q) THEN S ELSE S \cup {p}

KeysOf(S) == {PositionHash(p) : p \in S}

(***************************************************************************)
(* IBKRWrapper.__init__                                                    *)
(***************************************************************************)
\* the attributes __init__ sets on the wrapper
WrapperAttrs ==
  {"position_event", "positions", "market_data_request_ids", "market_data"}

Init ==
  /\ connState = "Disconnected"
  /\ sockOpen = FALSE
  /\ msg_queue = <<>>
  /\ nThreads = 0
  /\ pumpPc = [t \in Threads |-> "none"]
  /\ cleanups = [t \in Threads |-> 0]
  /\ errors = {}
  /\ positions = {}
  /\ position_event = FALSE
  /\ market_data_request_ids = EmptyMap
  /\ market_data = EmptyMap
  /\ taskPc = [c \in Tasks |-> "idle"]
  /\ taskN = [c \in Tasks |-> 0]
  /\ sigHist = [c \in Tasks |-> "none"]
  /\ stale = [c \in Tasks |-> {}]
  /\ mdCall = [pc |-> "idle", req_id |-> 0, conId |-> 0]
  /\ md_result = <<>>
  /\ subscribed = {}
  /\ asked = 0
  /\ begun = {}
  /\ delivered = {}

(***************************************************************************)
(* The transport, as the library presents it to this code.                 *)
(***************************************************************************)
\* IBKRClient.is_connected: EClient.isConnected()
is_connected == connState = "Connected" /\ sockOpen

\* IBKRClient.connect(host, port, client_id); ok: the socket could be opened.
\* super().connect() opens a new transport whatever the state is (on
\* socket.error it reports CONNECT_FAIL and disconnects), then a new pump
\* thread is started whatever the outcome was.
connect(ok) ==
  /\ nThreads < MaxConnects
  /\ connState' = IF ok THEN "Connected" ELSE "Disconnected"
  /\ sockOpen' = ok
  /\ nThreads' = nThreads + 1
  /\ pumpPc' = [pumpPc EXCEPT ![nThreads + 1] = "loop"]
  /\ UNCHANGED <<msg_queue, cleanups, errors, positions, position_event,
                 mdVars, taskVars, stale, mdCallVars, asked, delivered>>

\* server.py wrapper_func: if not ibkr_client.is_connected(): connect(...)
ensure_ibkr_connection(ok) ==
  /\ ~is_connected
  /\ connect(ok)

\* the gateway closes the socket: the reader thread marks the connection
\* closed, connState is left to the pump's cleanup
TransportDrop ==
  /\ sockOpen
  /\ sockOpen' = FALSE
  /\ UNCHANGED <<connState, msg_queue, pumpVars, positions, position_event,
                 mdVars, taskVars, stale, mdCallVars, asked, delivered>>

\* the reader thread puts the next inbound message on msg_queue
Receive(m) ==
  /\ is_connected
  /\ Len(msg_queue) < MaxQueue
  /\ msg_queue' = Append(msg_queue, m)
  /\ UNCHANGED <<connVars, pumpVars, positions, position_event, mdVars,
                 taskVars, stale, mdCallVars, asked, delivered>>

(***************************************************************************)
(* IBKRWrapper: the callbacks the decoder invokes on the pump thread.      *)
(* Each gives the state the callback leaves and whether it raised.         *)
(***************************************************************************)
\* position that starts the set anew with every callback:
\* self.positions = {Position(...)}
position_reset(account, conId, qty, avgCost) ==
  {Position(account, conId, qty, avgCost)}

\* IBKRWrapper.position: self.positions.add(Position(...))
position(account, conId, qty, avgCost) ==
  SetAdd(positions, Position(account, conId, qty, avgCost))

\* IBKRWrapper.tickPrice.  The lookup goes through the attribute
\* _market_data_request_ids: an attribute the wrapper does not have raises
\* AttributeError before anything else happens.
tickPrice(reqId, tickType, price) ==
  IF "_market_data_request_ids" \notin WrapperAttrs
    THEN [raised |-> TRUE, market_data |-> market_data]
    ELSE LET contract == Get(market_data_request_ids, reqId) IN
         IF contract = None
           THEN [raised |-> FALSE, market_data |-> market_data]
           ELSE [raised |-> FALSE,
                 market_data |->
                   [market_data EXCEPT
                      ![contract].price = Put(@, idx2name[tickType], price)]]

\* IBKRWrapper.tickSize: as tickPrice, on the size map
tickSize(reqId, tickType, size) ==
  IF "_market_data_request_ids" \notin WrapperAttrs
    THEN [raised |-> TRUE, market_data |-> market_data]
    ELSE LET contract == Get(market_data_request_ids, reqId) IN
         IF contract = None
           THEN [raised |-> FALSE, market_data |-> market_data]
           ELSE [raised |-> FALSE,
                 market_data |->
                   [market_data EXCEPT
                      ![contract].size = Put(@, idx2name[tickType], size)]]

\* initiate_market_data_request with key and value exchanged:
\* self.market_data_request_ids[contract.conId] = request_id
initiate_market_data_request_swapped(request_id, conId) ==
  /\ market_data_request_ids' = Put(market_data_request_ids, conId, request_id)
  /\ market_data' = Put(market_data, conId, MarketData)

\* initiate_market_data_request with the record stored under the request
\* id: self.market_data[request_id] = MarketData()
initiate_market_data_request_by_id(request_id, conId) ==
  /\ market_data_request_ids' = Put(market_data_request_ids, request_id, conId)
  /\ market_data' = Put(market_data, request_id, MarketData)

\* IBKRWrapper.initiate_market_data_request(request_id, contract).  The two
\* assignments are one step: the only code of another thread that would
\* read these dictionaries, tickPrice and tickSize, raises before it does.
initiate_market_data_request(request_id, conId) ==
  /\ market_data_request_ids' = Put(market_data_request_ids, request_id, conId)
  /\ market_data' = Put(market_data, conId, MarketData)

\* get_market_data reading the other dictionary:
\* self._wrapper.market_data_request_ids.get(contract.conId)
get_market_data_from_ids(conId) == Get(market_data_request_ids, conId)

\* IBKRClient.get_market_data(contract): self._wrapper.market_data.get(conId)
get_market_data(conId) == Get(market_data, conId)

(***************************************************************************)
(* IBKRClient.run: the pump loop, one thread per connect call.             *)
(*   "loop"     at the while condition                                     *)
(*   "get"      in msg_queue.get(block=True, timeout=0.2)                   *)
(*   "cleanup"  left the loop, about to call self.disconnect()             *)
(*   "done"     returned from run()                                        *)
(*   "dead"     ended by an exception that run() does not catch            *)
(***************************************************************************)
Alive(t) == pumpPc[t] \in {"loop", "get", "cleanup"}

\* while self.isConnected() or not self.msg_queue.empty()
run_check(t) ==
  /\ pumpPc[t] = "loop"
  /\ pumpPc' = [pumpPc EXCEPT ![t] =
                  IF is_connected \/ msg_queue # <<>> THEN "get" ELSE "cleanup"]
  /\ UNCHANGED <<connVars, msg_queue, nThreads, cleanups, errors, positions,
                 position_event, mdVars, taskVars, stale, mdCallVars, asked,
                 delivered>>

\* except queue.Empty: continue
run_timeout(t) ==
  /\ pumpPc[t] = "get"
  /\ msg_queue = <<>>
  /\ pumpPc' = [pumpPc EXCEPT ![t] = "loop"]
  /\ UNCHANGED <<connVars, msg_queue, nThreads, cleanups, errors, positions,
                 position_event, mdVars, taskVars, stale, mdCallVars, asked,
                 delivered>>

\* the thread pulls the head of the queue
Pulls(t) == pumpPc[t] = "get" /\ msg_queue # <<>>

\* run_oversize with `continue` in the place of `break`: the error is
\* reported and the loop goes on with the next message
run_oversize_continue(t) ==
  /\ Pulls(t)
  /\ Head(msg_queue).len > MAX_MSG_LEN
  /\ msg_queue' = Tail(msg_queue)
  /\ errors' = errors \cup {"BAD_LENGTH"}
  /\ pumpPc' = [pumpPc EXCEPT ![t] = "loop"]
  /\ UNCHANGED <<connVars, nThreads, cleanups, positions, position_event,
                 mdVars, taskVars, stale, mdCallVars, asked, delivered>>

\* if len(text) > MAX_MSG_LEN: self.wrapper.error(... BAD_LENGTH ...); break
run_oversize(t) ==
  /\ Pulls(t)
  /\ Head(msg_queue).len > MAX_MSG_LEN
  /\ msg_queue' = Tail(msg_queue)
  /\ errors' = errors \cup {"BAD_LENGTH"}
  /\ pumpPc' = [pumpPc EXCEPT ![t] = "cleanup"]
  /\ UNCHANGED <<connVars, nThreads, cleanups, positions, position_event,
                 mdVars, taskVars, stale, mdCallVars, asked, delivered>>

\* the message is one the decoder dispatches to `kind`
Dispatches(t, kind) ==
  /\ Pulls(t)
  /\ Head(msg_queue).len <= MAX_MSG_LEN
  /\ Head(msg_queue).kind = kind

\* decoder.interpret(fields) -> wrapper.position(...)
run_position(t) ==
  /\ Dispatches(t, "position")
  /\ LET m == Head(msg_queue) IN
       /\ positions' = position(m.a, m.b, m.c, m.d)
       /\ stale' = [c \in Tasks |-> stale[c] \ {<<m.a, m.b>>}]
       /\ delivered' = delivered \cup {<<m.a, m.b>>}
  /\ msg_queue' = Tail(msg_queue)
  /\ pumpPc' = [pumpPc EXCEPT ![t] = "loop"]
  /\ UNCHANGED <<connVars, nThreads, cleanups, errors, position_event,
                 mdVars, taskVars, mdCallVars, asked>>

\* decoder.interpret(fields) -> wrapper.tickPrice(...); an exception of the
\* callback passes through interpret() and run() and ends the thread
run_tickPrice(t) ==
  /\ Dispatches(t, "tickPrice")
  /\ LET m == Head(msg_queue)
         r == tickPrice(m.b, m.c, m.d) IN
       /\ market_data' = r.market_data
       /\ pumpPc' = [pumpPc EXCEPT ![t] = IF r.raised THEN "dead" ELSE "loop"]
  /\ msg_queue' = Tail(msg_queue)
  /\ UNCHANGED <<connVars, nThreads, cleanups, errors, positions,
                 position_event, market_data_request_ids, taskVars, stale,
                 mdCallVars, asked, delivered>>

\* decoder.interpret(fields) -> wrapper.tickSize(...)
run_tickSize(t) ==
  /\ Dispatches(t, "tickSize")
  /\ LET m == Head(msg_queue)
         r == tickSize(m.b, m.c, m.d) IN
       /\ market_data' = r.market_data
       /\ pumpPc' = [pumpPc EXCEPT ![t] = IF r.raised THEN "dead" ELSE "loop"]
  /\ msg_queue' = Tail(msg_queue)
  /\ UNCHANGED <<connVars, nThreads, cleanups, errors, positions,
                 position_event, market_data_request_ids, taskVars, stale,
                 mdCallVars, asked, delivered>>

\* self.disconnect(), after the loop
run_disconnect(t) ==
  /\ pumpPc[t] = "cleanup"
  /\ connState' = "Disconnected"
  /\ sockOpen' = FALSE
  /\ cleanups' = [cleanups EXCEPT ![t] = @ + 1]
  /\ pumpPc' = [pumpPc EXCEPT ![t] = "done"]
  /\ UNCHANGED <<msg_queue, nThreads, errors, positions, position_event,
                 mdVars, taskVars, stale, mdCallVars, asked, delivered>>

(***************************************************************************)
(* The batch signal (asyncio.Event) and IBKRWrapper.wait_for_positions.    *)
(* Tasks run on one event loop: a task's stretch between two awaits is one *)
(* step for the other tasks, while the pump thread may act between any two *)
(* steps.  Where a task is:                                                *)
(*   "idle"      no call made yet          "returned"  its last call       *)
(*                                                     returned            *)
(*   "sleep"     in asyncio.sleep(n / 10), n = taskN                       *)
(*   "blocking"  in Event.wait(), found the value unset, its future not    *)
(*               yet among the waiters                                     *)
(*   "blocked"   in Event.wait(), its future among the waiters             *)
(*   "woken"     its future resolved by set(), not yet resumed             *)
(***************************************************************************)
InCall(c) == taskPc[c] \in {"sleep", "blocking", "blocked", "woken"}

\* IBKRWrapper.positionEnd: self.position_event.set(): an unset value is set
\* and every waiter's future resolved
positionEnd ==
  /\ position_event' = TRUE
  /\ taskPc' = [c \in Tasks |->
                  IF ~position_event /\ taskPc[c] = "blocked"
                    THEN "woken" ELSE taskPc[c]]

\* decoder.interpret(fields) -> wrapper.positionEnd()
run_positionEnd(t) ==
  /\ Dispatches(t, "positionEnd")
  /\ positionEnd
  /\ sigHist' = [c \in Tasks |-> IF InCall(c) THEN "armed" ELSE sigHist[c]]
  /\ msg_queue' = Tail(msg_queue)
  /\ pumpPc' = [pumpPc EXCEPT ![t] = "loop"]
  /\ UNCHANGED <<connVars, nThreads, cleanups, errors, positions, mdVars,
                 taskN, stale, mdCallVars, asked, delivered>>

\* wait_for_positions_return without self.position_event.clear()
wait_for_positions_return_noclear(c) ==
  /\ position_event' = position_event
  /\ taskPc' = [taskPc EXCEPT ![c] = "returned"]
  /\ taskN' = [taskN EXCEPT ![c] = 0]
  /\ sigHist' = [sigHist EXCEPT ![c] = "none"]

\* wait_for_positions, its end: self.position_event.clear();
\* return self.positions
wait_for_positions_return(c) ==
  /\ position_event' = FALSE
  /\ taskPc' = [taskPc EXCEPT ![c] = "returned"]
  /\ taskN' = [taskN EXCEPT ![c] = 0]
  /\ sigHist' = [sigHist EXCEPT ![c] = "none"]

\* wait_for_positions, the poll from iteration n on, up to the next await:
\*   for n in range(10): if is_set(): break; await asyncio.sleep(n / 10)
\*   await self.position_event.wait()
\* wait() on a set event returns at once, without suspending the task
wait_for_positions_poll(c, n, hist) ==
  IF position_event
    THEN wait_for_positions_return(c)
    ELSE /\ taskPc' = [taskPc EXCEPT ![c] =
                         IF n < PollIterations THEN "sleep" ELSE "blocking"]
         /\ taskN' = [taskN EXCEPT ![c] = n]
         /\ sigHist' = [sigHist EXCEPT ![c] = hist]
         /\ UNCHANGED position_event

\* get_positions with self._wrapper.positions.clear() before the request
get_positions_clearing(c) ==
  /\ taskPc[c] \in {"idle", "returned"}
  /\ positions' = {}
  /\ stale' = [stale EXCEPT ![c] = {}]
  /\ wait_for_positions_poll(c, 0,
        IF taskPc[c] = "returned" THEN "quiet" ELSE "fresh")
  /\ UNCHANGED <<connVars, msg_queue, pumpVars, mdVars, mdCallVars, asked,
                 delivered>>

\* IBKRClient.get_positions, what it does to the program: self.reqPositions(),
\* then wait_for_positions up to its first await
get_positions_call(c) ==
  /\ taskPc[c] \in {"idle", "returned"}
  /\ stale' = [stale EXCEPT ![c] = KeysOf(positions)]
  /\ wait_for_positions_poll(c, 0,
        IF taskPc[c] = "returned" THEN "quiet" ELSE "fresh")
  /\ UNCHANGED <<connVars, msg_queue, pumpVars, positions, mdVars,
                 mdCallVars, delivered>>

\* IBKRClient.get_positions, with a gateway that sends what it likes when it
\* likes
get_positions(c) ==
  /\ get_positions_call(c)
  /\ UNCHANGED asked

\* IBKRClient.get_positions on a live connection, with a gateway that owes
\* one positionEnd for every reqPositions it receives
get_positions_answered(c) ==
  /\ is_connected
  /\ asked < MaxAsked
  /\ asked' = asked + 1
  /\ get_positions_call(c)

\* the gateway answers one reqPositions: a positionEnd is put on msg_queue
GatewayAnswers ==
  /\ asked > 0
  /\ asked' = asked - 1
  /\ is_connected
  /\ Len(msg_queue) < MaxQueue
  /\ msg_queue' = Append(msg_queue, PositionEndMsg)
  /\ UNCHANGED <<connVars, pumpVars, positions, position_event, mdVars,
                 taskVars, stale, mdCallVars, delivered>>

\* asyncio.sleep(n / 10) is over: the next iteration of the poll
poll_wake(c) ==
  /\ taskPc[c] = "sleep"
  /\ wait_for_positions_poll(c, taskN[c] + 1, sigHist[c])
  /\ UNCHANGED <<connVars, msg_queue, pumpVars, positions, mdVars, stale,
                 mdCallVars, asked, delivered>>

\* Event.wait(): self._waiters.append(fut); await fut
wait_register(c) ==
  /\ taskPc[c] = "blocking"
  /\ taskPc' = [taskPc EXCEPT ![c] = "blocked"]
  /\ UNCHANGED <<connVars, msg_queue, pumpVars, positions, position_event,
                 mdVars, taskN, sigHist, stale, mdCallVars, asked, delivered>>

\* the task resumes after its future was resolved: wait() returns True
wait_resume(c) ==
  /\ taskPc[c] = "woken"
  /\ wait_for_positions_return(c)
  /\ UNCHANGED <<connVars, msg_queue, pumpVars, positions, mdVars, stale,
                 mdCallVars, asked, delivered>>

(***************************************************************************)
(* IBKRClient.request_market_data                                          *)
(***************************************************************************)
\* what secrets.randbelow(999_999_999) is drawn from in the model
ReqIds == {42, 43}

\* where the event-loop thread is in request_market_data: "idle" (in no
\* call), "send" (the id is registered, the subscription not yet sent)
MdCallAt(pc) == mdCall.pc = pc

\* IBKRClient.request_market_data(contract), up to the subscription:
\* req_id = secrets.randbelow(999_999_999);
\* self._wrapper.initiate_market_data_request(req_id, contract).  The calls
\* are made on the event-loop thread and hold no await: one at a time.
request_market_data(req_id, conId) ==
  /\ MdCallAt("idle")
  /\ initiate_market_data_request(req_id, conId)
  /\ mdCall' = [pc |-> "send", req_id |-> req_id, conId |-> conId]
  /\ begun' = begun \cup {conId}
  /\ UNCHANGED <<connVars, msg_queue, pumpVars, positions, position_event,
                 taskVars, stale, md_result, subscribed, asked, delivered>>

\* EClient.reqMktData(req_id, ...): the subscription goes out when the client
\* is connected, else NOT_CONNECTED is reported and nothing is sent
reqMktData(req_id) ==
  subscribed' = IF is_connected THEN subscribed \cup {req_id} ELSE subscribed

\* request_market_data, its end: self.reqMarketDataType(4);
\* self.reqMktData(req_id, contract, "", False, False, [])
request_market_data_send ==
  /\ MdCallAt("send")
  /\ reqMktData(mdCall.req_id)
  /\ mdCall' = [pc |-> "idle", req_id |-> 0, conId |-> 0]
  /\ UNCHANGED <<connVars, msg_queue, pumpVars, positions, position_event,
                 mdVars, taskVars, stale, md_result, begun, asked, delivered>>

\* a call of IBKRClient.get_market_data(contract) on the event-loop thread;
\* md_result holds what it returns (and is empty before the first call)
get_market_data_call(conId) ==
  /\ MdCallAt("idle")
  /\ md_result' = <<get_market_data(conId)>>
  /\ UNCHANGED <<connVars, msg_queue, pumpVars, positions, position_event,
                 mdVars, taskVars, stale, mdCall, subscribed, begun, asked,
                 delivered>>

(***************************************************************************)
(* What the gateway sends.                                                 *)
(***************************************************************************)
PositionInputs ==
  { PositionMsg("U123", 7, 100, 552), PositionMsg("U123", 7, 150, 560),
    PositionMsg("U456", 7, 100, 552), PositionMsg("U123", 8, 150, 560) }

\* request id 42 may be registered (ReqIds), 99 never is
TickInputs ==
  { TickPriceMsg(42, 1, 1015), TickPriceMsg(99, 1, 1015),
    TickSizeMsg(42, 0, 300), TickSizeMsg(99, 0, 300) }

Inbound == PositionInputs \cup TickInputs \cup {PositionEndMsg, OversizeMsg}

(***************************************************************************)
(* The whole program.                                                      *)
(***************************************************************************)
PumpStep(t) ==
  \/ run_check(t)
  \/ run_timeout(t)
  \/ run_oversize(t)
  \/ run_position(t)
  \/ run_positionEnd(t)
  \/ run_tickPrice(t)
  \/ run_tickSize(t)
  \/ run_disconnect(t)

TaskStep(c) ==
  \/ get_positions(c)
  \/ poll_wake(c)
  \/ wait_register(c)
  \/ wait_resume(c)

Next ==
  \/ \E ok \in BOOLEAN : connect(ok)
  \/ \E ok \in BOOLEAN : ensure_ibkr_connection(ok)
  \/ TransportDrop
  \/ \E m \in Inbound : Receive(m)
  \/ \E t \in Threads : PumpStep(t)
  \/ \E c \in Tasks : TaskStep(c)
  \/ \E r \in ReqIds, k \in ConIds : request_market_data(r, k)
  \/ request_market_data_send
  \/ \E k \in ConIds : get_market_data_call(k)

Spec == Init /\ [][Next]_vars

(***************************************************************************)
(* The connection and its pump threads, with no task and no market-data    *)
(* request: connect is called directly or by the server's guard.           *)
(***************************************************************************)
ConnInbound ==
  { PositionMsg("U123", 7, 100, 552), PositionEndMsg, OversizeMsg,
    TickPriceMsg(99, 1, 1015) }

NextConnection ==
  \/ \E ok \in BOOLEAN : connect(ok)
  \/ \E ok \in BOOLEAN : ensure_ibkr_connection(ok)
  \/ TransportDrop
  \/ \E m \in ConnInbound : Receive(m)
  \/ \E t \in Threads : run_check(t)
  \/ \E t \in Threads : run_timeout(t)
  \/ \E t \in Threads : run_oversize(t)
  \/ \E t \in Threads : run_position(t)
  \/ \E t \in Threads : run_positionEnd(t)
  \/ \E t \in Threads : run_tickPrice(t)
  \/ \E t \in Threads : run_disconnect(t)

SpecConnection == Init /\ [][NextConnection]_vars

(***************************************************************************)
(* The server's use of the connection: every connect call goes through     *)
(* ensure_ibkr_connection, after is_connected() returned false, and the    *)
(* gateway accepts every connection.                                       *)
(***************************************************************************)
NextServer ==
  \/ ensure_ibkr_connection(TRUE)
  \/ TransportDrop
  \/ \E m \in ConnInbound : Receive(m)
  \/ \E t \in Threads : run_check(t)
  \/ \E t \in Threads : run_timeout(t)
  \/ \E t \in Threads : run_oversize(t)
  \/ \E t \in Threads : run_position(t)
  \/ \E t \in Threads : run_positionEnd(t)
  \/ \E t \in Threads : run_tickPrice(t)
  \/ \E t \in Threads : run_disconnect(t)

SpecServer == Init /\ [][NextServer]_vars

(***************************************************************************)
(* Claims on the connection and the pump loop.                             *)
(***************************************************************************)
\* thread t acts in this step
Acts(t) == pumpPc'[t] # pumpPc[t]

Ended(t) == pumpPc[t] \in {"done", "dead"}

\* C4: a connect call made while the client is connected is a no-op: it
\* neither reopens the transport nor starts another pump thread.
C4_ConnectIdempotent ==
  [][ (is_connected /\ \E ok \in BOOLEAN : connect(ok))
        => UNCHANGED <<connState, sockOpen, nThreads, pumpPc>> ]_vars

\* C5: at most one pump thread is alive in every reachable state, also when
\* every connect call was made after is_connected() returned false.
C5_OnePump == Cardinality({t \in Threads : Alive(t)}) <= 1

\* C8: a pump that pulls a message longer than MAX_MSG_LEN reports
\* BAD_LENGTH and leaves the loop: it dispatches neither that message nor
\* any message queued behind it, its one remaining step is the disconnect,
\* which leaves the connection Disconnected.
C8_OversizeIsFatal ==
  [][ \A t \in Threads :
        /\ (Pulls(t) /\ Head(msg_queue).len > MAX_MSG_LEN /\ Acts(t))
             => /\ "BAD_LENGTH" \in errors'
                /\ pumpPc'[t] = "cleanup"
                /\ msg_queue' = Tail(msg_queue)
                /\ UNCHANGED <<positions, position_event, mdVars>>
        /\ (pumpPc[t] = "cleanup" /\ Acts(t))
             => /\ pumpPc'[t] = "done"
                /\ connState' = "Disconnected"
                /\ ~is_connected'
                /\ UNCHANGED <<msg_queue, positions, position_event, mdVars>>
        /\ (pumpPc[t] = "done" => pumpPc'[t] = "done") ]_vars

\* C8, its case: a pump has reported BAD_LENGTH and ended, the connection
\* is Disconnected and a message that was queued behind is still queued.
C8_Witness ==
  /\ "BAD_LENGTH" \in errors
  /\ \E t \in Threads : pumpPc[t] = "done" /\ cleanups[t] = 1
  /\ \A t \in Threads : ~Alive(t)
  /\ connState = "Disconnected"
  /\ msg_queue # <<>>

\* C9: a pump that pulled no oversized message leaves the loop only when
\* the transport is disconnected and the queue is empty, and every pump
\* that ends has performed the disconnect cleanup exactly once.
C9_PumpExit ==
  [][ \A t \in Threads :
        /\ (pumpPc[t] = "loop" /\ pumpPc'[t] = "cleanup")
             => (~is_connected /\ msg_queue = <<>>)
        /\ (Ended(t)' => cleanups'[t] = 1) ]_vars

\* C15: a pump thread is running exactly when the connection state is
\* Connected (connect is one step here, Connecting is inside it): no pump
\* runs while it is Disconnected, and it is never Connected with no live
\* pump.
C15_PumpIffConnected ==
  (\E t \in Threads : Alive(t)) <=> (connState = "Connected")

(***************************************************************************)
(* The position aggregator under the pump alone: every position input,     *)
(* connections that drop and are reopened by the server's guard.           *)
(***************************************************************************)
NextAggregator ==
  \/ ensure_ibkr_connection(TRUE)
  \/ TransportDrop
  \/ \E m \in PositionInputs \cup {PositionEndMsg} : Receive(m)
  \/ \E t \in Threads : run_check(t)
  \/ \E t \in Threads : run_timeout(t)
  \/ \E t \in Threads : run_position(t)
  \/ \E t \in Threads : run_positionEnd(t)
  \/ \E t \in Threads : run_disconnect(t)

SpecAggregator == Init /\ [][NextAggregator]_vars

\* C1: after a position callback the set holds exactly one entry with the
\* callback's (account, contract id) key, and that entry has the quantity
\* and the average cost of this, the most recent, callback.
C1_LatestPositionWins ==
  [][ \A t \in Threads :
        (Dispatches(t, "position") /\ Acts(t))
          => LET m == Head(msg_queue) IN
             {p \in positions' : PositionHash(p) = <<m.a, m.b>>}
               = {Position(m.a, m.b, m.c, m.d)} ]_vars

(***************************************************************************)
(* Market data: requests from the event loop, ticks from the pump.         *)
(***************************************************************************)
NextMarketData ==
  \/ ensure_ibkr_connection(TRUE)
  \/ TransportDrop
  \/ \E r \in ReqIds, k \in ConIds : request_market_data(r, k)
  \/ request_market_data_send
  \/ \E m \in TickInputs : Receive(m)
  \/ \E t \in Threads : run_check(t)
  \/ \E t \in Threads : run_timeout(t)
  \/ \E t \in Threads : run_tickPrice(t)
  \/ \E t \in Threads : run_tickSize(t)
  \/ \E t \in Threads : run_disconnect(t)

SpecMarketData == Init /\ [][NextMarketData]_vars

\* the pump dispatches a tick whose request id is / is not registered
TickStep(t, kind) == Dispatches(t, kind) /\ Acts(t)
Registered(reqId) == reqId \in DOMAIN market_data_request_ids

\* C2: a tickPrice or tickSize callback with a request id that was never
\* registered changes neither the request-id map nor a market-data record
\* nor the position set, and returns normally: the pump is back at its loop.
C2_UnknownTickDropped ==
  [][ \A t \in Threads :
        ((TickStep(t, "tickPrice") \/ TickStep(t, "tickSize"))
           /\ ~Registered(Head(msg_queue).b))
          => /\ UNCHANGED <<market_data_request_ids, market_data, positions>>
             /\ pumpPc'[t] = "loop" ]_vars

\* C3: a tickPrice(r, kind, v) callback for a registered id r writes v under
\* the kind's name into the price map of r's subject and leaves its size
\* map as it was, as get_market_data then shows; tickSize likewise, on the
\* size map.
C3_TickRecorded ==
  [][ \A t \in Threads :
        LET m == Head(msg_queue)
            conId == market_data_request_ids[m.b]
            before == get_market_data(conId)
            after == Get(market_data', conId)
        IN /\ (TickStep(t, "tickPrice") /\ Registered(m.b))
                => /\ after.price = Put(before.price, idx2name[m.c], m.d)
                   /\ after.size = before.size
           /\ (TickStep(t, "tickSize") /\ Registered(m.b))
                => /\ after.size = Put(before.size, idx2name[m.c], m.d)
                   /\ after.price = before.price ]_vars

\* C11: beginning a market-data request leaves an empty record under the
\* subject's contract id, also when the subject had a record from an
\* earlier request: a lookup then shows a record whose price and size maps
\* are both empty.
C11_RestartClears ==
  [][ \A r \in ReqIds, k \in ConIds :
        request_market_data(r, k)
          => /\ k \in DOMAIN market_data'
             /\ market_data'[k] = MarketData
             /\ market_data'[k].price = EmptyMap
             /\ market_data'[k].size = EmptyMap ]_vars

\* C11, its case: a request was begun for a subject that another request id
\* was registered for before, a tick was dispatched in between, and the
\* subject's record is empty
C11_Witness ==
  /\ MdCallAt("send")
  /\ \E r \in DOMAIN market_data_request_ids :
       /\ r # mdCall.req_id
       /\ market_data_request_ids[r] = mdCall.conId
  /\ \E t \in Threads : pumpPc[t] = "dead"
  /\ market_data[mdCall.conId] = MarketData

\* C17: every request id request_market_data allocates is fresh: it is no
\* key of the request-id map yet, so registering it overwrites no mapping.
C17_FreshIds ==
  [][ \A r \in ReqIds, k \in ConIds :
        request_market_data(r, k) => ~Registered(r) ]_vars

\* C19: request_market_data registers the id and creates the subject's
\* record before it sends the subscription: when the subscription goes out
\* the id maps to the subject and the subject has a record, every id the
\* gateway was sent is registered, and so is the id of every tick that
\* answers a subscription when it is dispatched.
C19_RegisteredBeforeSent ==
  /\ [](subscribed \subseteq DOMAIN market_data_request_ids)
  /\ [][ /\ request_market_data_send
             => /\ Registered(mdCall.req_id)
                /\ market_data_request_ids[mdCall.req_id] = mdCall.conId
                /\ mdCall.conId \in DOMAIN market_data
         /\ \A t \in Threads :
              ((TickStep(t, "tickPrice") \/ TickStep(t, "tickSize"))
                 /\ Head(msg_queue).b \in subscribed)
                => Registered(Head(msg_queue).b) ]_vars

\* C19, its case: a subscription was sent and a pump is pulling a tick that
\* carries its id
C19_Witness ==
  /\ subscribed # {}
  /\ \E t \in Threads : Pulls(t) /\ Head(msg_queue).kind = "tickPrice"
  /\ msg_queue # <<>> /\ Head(msg_queue).b \in subscribed

NextLookup ==
  \/ ensure_ibkr_connection(TRUE)
  \/ \E r \in ReqIds, k \in ConIds : request_market_data(r, k)
  \/ request_market_data_send
  \/ \E k \in ConIds : get_market_data_call(k)
  \/ \E m \in {TickPriceMsg(42, 1, 1015), TickPriceMsg(99, 1, 1015)} :
       Receive(m)
  \/ \E t \in Threads : run_check(t)
  \/ \E t \in Threads : run_timeout(t)
  \/ \E t \in Threads : run_tickPrice(t)

SpecLookup == Init /\ [][NextLookup]_vars

\* C13: a get_market_data call returns None exactly when no market-data
\* request was ever begun for the subject's contract id, and the subject's
\* current record otherwise; the call changes neither dictionary nor any
\* record.
C13_LookupIsRead ==
  [][ \A k \in ConIds :
        get_market_data_call(k)
          => /\ (md_result' = <<None>>) <=> (k \notin begun)
             /\ k \in begun
                  => /\ k \in DOMAIN market_data
                     /\ md_result' = <<market_data[k]>>
             /\ UNCHANGED <<market_data_request_ids, market_data>> ]_vars

\* C13, its case: a lookup has returned a record, for the one subject a
\* request was begun for
C13_Witness ==
  /\ MdCallAt("idle")
  /\ begun = {7}
  /\ md_result = <<MarketData>>

(***************************************************************************)
(* Position requests: two tasks on the event loop, one connection, a       *)
(* gateway that sends positions and batch ends.                            *)
(***************************************************************************)
CycleInbound ==
  { PositionMsg("U123", 7, 100, 552), PositionMsg("U123", 8, 150, 560),
    PositionEndMsg }

NextPositions ==
  \/ ensure_ibkr_connection(TRUE)
  \/ \E m \in CycleInbound : Receive(m)
  \/ \E t \in Threads : run_check(t)
  \/ \E t \in Threads : run_timeout(t)
  \/ \E t \in Threads : run_position(t)
  \/ \E t \in Threads : run_positionEnd(t)
  \/ \E c \in Tasks : get_positions(c)
  \/ \E c \in Tasks : poll_wake(c)
  \/ \E c \in Tasks : wait_register(c)
  \/ \E c \in Tasks : wait_resume(c)

SpecPositions == Init /\ [][NextPositions]_vars

\* task c's call of get_positions returns in this step
Returns(c) ==
  /\ get_positions(c) \/ poll_wake(c) \/ wait_resume(c)
  /\ taskPc'[c] = "returned"

\* a call made after a return, with the signal unarmed and no positionEnd
\* since: the signal is still unarmed and the call is in its poll or, after
\* all ten iterations, waiting on the signal
C6_Quiet ==
  \A c \in Tasks :
    sigHist[c] = "quiet"
      => /\ ~position_event
         /\ taskPc[c] \in {"sleep", "blocking", "blocked"}
         /\ taskPc[c] = "sleep" => taskN[c] < PollIterations
         /\ taskPc[c] \in {"blocking", "blocked"} => taskN[c] = PollIterations

\* C6: when wait_for_positions returns the signal is unarmed; a call made
\* after a return, with the signal unarmed and no positionEnd since, does
\* not return: it goes through the ten poll iterations one by one and then
\* blocks on the signal.
C6_ClearsSignal ==
  /\ []C6_Quiet
  /\ [][ \A c \in Tasks :
           /\ Returns(c) => ~position_event'
           /\ (sigHist[c] = "quiet" /\ taskPc[c] = "sleep"
                 /\ taskPc'[c] # "sleep")
                => taskN[c] = PollIterations - 1
           /\ (sigHist[c] = "quiet" /\ taskPc[c] = "sleep"
                 /\ taskN'[c] # taskN[c])
                => taskN'[c] = taskN[c] + 1 ]_vars

\* C6, its case: a second call has slept ten times and is blocked
C6_Witness ==
  \E c \in Tasks :
    sigHist[c] = "quiet" /\ taskPc[c] = "blocked" /\ taskN[c] = PollIterations

\* C7: a call made with the signal armed returns without a poll sleep, and
\* once the signal was armed during a poll iteration the call performs no
\* later sleep.
C7_NoSleepOnceArmed ==
  [][ \A c \in Tasks :
        /\ (get_positions(c) /\ position_event) => taskPc'[c] = "returned"
        /\ (sigHist[c] = "armed" /\ taskPc[c] = "sleep"
              /\ taskN'[c] # taskN[c])
             => taskPc'[c] # "sleep" ]_vars

\* C10 as claimed: the set a get_positions call returns holds no position
\* that was delivered only before the call issued its request.
C10_ClearedEachCycle ==
  [][ \A c \in Tasks :
        Returns(c) => KeysOf(positions') \cap stale'[c] = {} ]_vars

\* C10 as amended: no request cycle clears the set: no entry is ever
\* removed, and the set a get_positions call returns still holds the
\* positions that were delivered only before it issued its request.
C10_NeverCleared ==
  [][ /\ positions \subseteq positions'
      /\ \A c \in Tasks :
           Returns(c) => stale'[c] \subseteq KeysOf(positions') ]_vars

\* C10, its case: a call has returned a set that holds an entry delivered
\* only before its request
C10_Witness ==
  \E c \in Tasks :
    /\ taskPc[c] = "returned"
    /\ stale[c] # {}
    /\ stale[c] \subseteq KeysOf(positions)

\* wait_for_positions, its result: return self.positions hands the caller
\* the wrapper's own set, so what a caller holds is what the set holds now
ReturnedSet == positions

\* C12: the collection a get_positions call returned is a snapshot: as long
\* as the caller makes no new call, what it holds does not change, whatever
\* position callbacks are dispatched.
C12_ReturnIsSnapshot ==
  [][ \A c \in Tasks :
        (taskPc[c] = "returned" /\ taskPc'[c] = "returned")
          => ReturnedSet' = ReturnedSet ]_vars

\* C14: wait_for_positions has no timeout path: a call returns only in a
\* state where the signal is armed, so without a positionEnd since the
\* signal was last cleared it does not return.
C14_ReturnsOnlyArmed ==
  [][ \A c \in Tasks : Returns(c) => position_event ]_vars

\* C16: when a positionEnd is dispatched the set holds an entry for every
\* key a position callback was called with before, and so does the set a
\* call returns: a caller that returns after observing the signal sees an
\* entry for every key delivered before the positionEnd that armed it.
C16_BatchVisible ==
  [][ /\ \A t \in Threads :
           (Dispatches(t, "positionEnd") /\ Acts(t))
             => delivered \subseteq KeysOf(positions')
      /\ \A c \in Tasks :
           Returns(c) => delivered \subseteq KeysOf(ReturnedSet') ]_vars

\* C16, its case: a call has returned, two keys were delivered, neither of
\* them only before the call's request
C16_Witness ==
  \E c \in Tasks :
    /\ taskPc[c] = "returned"
    /\ stale[c] = {}
    /\ Cardinality(delivered) = 2
    /\ delivered \subseteq KeysOf(ReturnedSet)

(***************************************************************************)
(* Overlapping position requests against a gateway that answers every      *)
(* reqPositions with one positionEnd and sends nothing else, on a           *)
(* connection that stays up.                                               *)
(***************************************************************************)
NextOverlap ==
  \/ ensure_ibkr_connection(TRUE)
  \/ GatewayAnswers
  \/ \E t \in Threads : run_check(t)
  \/ \E t \in Threads : run_timeout(t)
  \/ \E t \in Threads : run_positionEnd(t)
  \/ \E c \in Tasks : get_positions_answered(c)
  \/ \E c \in Tasks : poll_wake(c)
  \/ \E c \in Tasks : wait_register(c)
  \/ \E c \in Tasks : wait_resume(c)

SpecOverlap == Init /\ [][NextOverlap]_vars

\* every request was answered, every answer dispatched, the signal is
\* unarmed and no task is about to resume: nothing but a new request can
\* arm the signal again
Settled ==
  /\ asked = 0
  /\ msg_queue = <<>>
  /\ ~position_event
  /\ \A c \in Tasks : taskPc[c] # "woken"

\* C18: when the gateway answers every reqPositions with one positionEnd,
\* every get_positions call returns, overlapping calls too: once all is
\* settled no caller is left blocked on the signal because another caller
\* cleared it.
C18_NoCallerStranded ==
  Settled => \A c \in Tasks : taskPc[c] # "blocked"

=============================================================================
